---- MODULE Spec2Model ----
(***************************************************************************)
(* Model of src/sqlite_daq.py: SQLiteDaqWrapper, a thin layer over one     *)
(* sqlite3 connection.  The wrapper's methods are the actions; the SQL     *)
(* engine (statement preparation, type affinity, implicit transactions of  *)
(* the Python sqlite3 module, ORDER BY / LIMIT) and the csv module are      *)
(* modelled by operators that compute what the statements the wrapper      *)
(* issues do.                                                              *)
(***************************************************************************)
EXTENDS Integers, Sequences, FiniteSets, TLC

VARIABLES db, durable, inTxn, files, pc, lock, op, left, held

vars == <<db, durable, inTxn, files, pc, lock, op, left, held>>

dbvars == <<db, durable, inTxn, files>>

lockvars == <<pc, lock, op, left, held>>

(***************************************************************************)
(* Bounds.                                                                 *)
(***************************************************************************)
\* largest number of rows a table is filled with
MaxRows == 2

\* largest n passed to the windowed reads: one more than a table can hold
MaxN == MaxRows + 1

(***************************************************************************)
(* Generic helpers on sequences.                                           *)
(***************************************************************************)
Range(s) == {s[i] : i \in 1..Len(s)}

Reverse(s) == [i \in 1..Len(s) |-> s[Len(s) + 1 - i]]

Min(a, b) == IF a <= b THEN a ELSE b

Take(s, n) == SubSeq(s, 1, Min(n, Len(s)))

(***************************************************************************)
(* Values.  A text is a sequence of one-character strings.  A real is kept *)
(* in tenths (21.5 is 215), which is exact for the values of the model.    *)
(***************************************************************************)
Null == [tag |-> "null", n |-> 0, s |-> <<>>]

Int_(i) == [tag |-> "int", n |-> i, s |-> <<>>]

Real_(tenths) == [tag |-> "real", n |-> tenths, s |-> <<>>]

Text_(chars) == [tag |-> "text", n |-> 0, s |-> chars]

Digits == <<"0", "1", "2", "3", "4", "5", "6", "7", "8", "9">>

IsDigit(c) == \E d \in 1..10 : Digits[d] = c

DigitVal(c) == (CHOOSE d \in 1..10 : Digits[d] = c) - 1

\* str(int) / sqlite's integer-to-text conversion: decimal digits
RECURSIVE IntToText(_)
IntToText(i) ==
    IF i < 10 THEN <<Digits[i + 1]>>
    ELSE IntToText(i \div 10) \o <<Digits[(i % 10) + 1]>>

\* repr(float) / sqlite's real-to-text conversion: "21.5", "2.0"
RealToText(tenths) == IntToText(tenths \div 10) \o <<".">> \o <<Digits[(tenths % 10) + 1]>>

RECURSIVE DigitsToInt(_)
DigitsToInt(s) ==
    IF s = <<>> THEN 0
    ELSE 10 * DigitsToInt(SubSeq(s, 1, Len(s) - 1)) + DigitVal(s[Len(s)])

AllDigits(s) == Len(s) > 0 /\ \A i \in 1..Len(s) : IsDigit(s[i])

\* text that sqlite reads as an integer literal
LooksInt(s) == AllDigits(s)

\* text that sqlite reads as a real literal with one fraction digit
LooksReal(s) ==
    /\ Len(s) >= 3
    /\ s[Len(s) - 1] = "."
    /\ IsDigit(s[Len(s)])
    /\ AllDigits(SubSeq(s, 1, Len(s) - 2))

TextToTenths(s) == 10 * DigitsToInt(SubSeq(s, 1, Len(s) - 2)) + DigitVal(s[Len(s)])

\* Python's == on the values a read returns: int and float compare by number
PyEq(a, b) ==
    LET num(v) == v.tag \in {"int", "real"}
        tenths(v) == IF v.tag = "int" THEN 10 * v.n ELSE v.n
    IN  IF num(a) /\ num(b) THEN tenths(a) = tenths(b) ELSE a = b

(***************************************************************************)
(* Database state as the engine holds it.  A table is its column list and  *)
(* its rows in rowid order (the order of the b-tree, which a SELECT with   *)
(* no ORDER BY returns).  `seq` of a row is a history variable: the      *)
(* row's position in the order of insertion into its table.                *)
(***************************************************************************)
Names == {"T", "T2"}

NoTable == [exists |-> FALSE, cols |-> <<>>, rows |-> <<>>]

Col(name, type, pk) == [name |-> name, type |-> type, pk |-> pk]

ColNames(tbl) == [i \in 1..Len(tbl.cols) |-> tbl.cols[i].name]

HasCol(tbl, name) == \E i \in 1..Len(tbl.cols) : tbl.cols[i].name = name

ColIndex(tbl, name) == CHOOSE i \in 1..Len(tbl.cols) : tbl.cols[i].name = name

HasPk(tbl) == \E i \in 1..Len(tbl.cols) : tbl.cols[i].pk

PkIndex(tbl) == CHOOSE i \in 1..Len(tbl.cols) : tbl.cols[i].pk

NoDuplicates(s) == \A i, j \in 1..Len(s) : s[i] = s[j] => i = j

MaxRowid(rows) ==
    IF rows = <<>> THEN 0
    ELSE CHOOSE m \in {rows[i].rowid : i \in 1..Len(rows)} :
            \A i \in 1..Len(rows) : rows[i].rowid <= m

\* sqlite column affinity applied to a value bound into a column of the
\* declared type (https://sqlite.org/datatype3.html section 3)
ApplyAffinity(type, v) ==
    CASE type = "TEXT" ->
            IF v.tag = "int" THEN Text_(IntToText(v.n))
            ELSE IF v.tag = "real" THEN Text_(RealToText(v.n))
            ELSE v
      [] type = "INTEGER" ->
            IF v.tag = "text" /\ LooksInt(v.s) THEN Int_(DigitsToInt(v.s))
            ELSE IF v.tag = "text" /\ LooksReal(v.s) THEN
                IF TextToTenths(v.s) % 10 = 0 THEN Int_(TextToTenths(v.s) \div 10)
                ELSE Real_(TextToTenths(v.s))
            ELSE IF v.tag = "real" /\ v.n % 10 = 0 THEN Int_(v.n \div 10)
            ELSE v
      [] type = "REAL" ->
            IF v.tag = "text" /\ LooksInt(v.s) THEN Real_(10 * DigitsToInt(v.s))
            ELSE IF v.tag = "text" /\ LooksReal(v.s) THEN Real_(TextToTenths(v.s))
            ELSE IF v.tag = "int" THEN Real_(10 * v.n)
            ELSE v

\* rows with `row` put at its rowid position
InsertSorted(rows, row) ==
    LET below == {i \in 1..Len(rows) : rows[i].rowid < row.rowid}
        k == Cardinality(below)
    IN  SubSeq(rows, 1, k) \o <<row>> \o SubSeq(rows, k + 1, Len(rows))

(***************************************************************************)
(* The connection: db is what the connection sees, durable what has been   *)
(* committed, inTxn whether the sqlite3 module has an implicit transaction *)
(* open.  Every Exec* operator returns the connection after the statement  *)
(* together with the exception class (err) and the engine's message (why). *)
(***************************************************************************)
Conn(d, u, t) == [db |-> d, durable |-> u, inTxn |-> t]

Res(c, err, why) == [db |-> c.db, durable |-> c.durable, inTxn |-> c.inTxn, err |-> err, why |-> why]

ConnOf(r) == Conn(r.db, r.durable, r.inTxn)

\* conn.commit()
Commit(c) == Conn(c.db, c.db, FALSE)

\* cursor.execute("CREATE TABLE ..."): DDL opens no implicit transaction, so
\* outside a transaction it is committed by the engine at once
ExecCreate(c, name, cols) ==
    LET names == [i \in 1..Len(cols) |-> cols[i].name]
    IN  IF cols = <<>> THEN Res(c, "OperationalError", "syntax error")
        ELSE IF c.db[name].exists THEN Res(c, "OperationalError", "table already exists")
        ELSE IF ~NoDuplicates(names) THEN Res(c, "OperationalError", "duplicate column name")
        ELSE LET d == [c.db EXCEPT ![name] = [exists |-> TRUE, cols |-> cols, rows |-> <<>>]]
             IN  Res(Conn(d, IF c.inTxn THEN c.durable ELSE d, c.inTxn), "ok", "ok")

\* the step of an INSERT whose statement compiled and whose parameters were
\* bound: given[i] is the value for column i (Null when the column is not
\* listed)
InsertRow(c, name, given) ==
    LET tbl == c.db[name]
        cells0 == [i \in 1..Len(tbl.cols) |-> ApplyAffinity(tbl.cols[i].type, given[i])]
        open == Conn(c.db, c.durable, TRUE)
        next == MaxRowid(tbl.rows) + 1
        put(rowid, cells) ==
            LET row == [rowid |-> rowid, cells |-> cells, seq |-> Len(tbl.rows) + 1]
                d == [c.db EXCEPT ![name].rows = InsertSorted(tbl.rows, row)]
            IN  Res(Conn(d, c.durable, TRUE), "ok", "ok")
    IN  IF ~HasPk(tbl) THEN put(next, cells0)
        ELSE LET p == PkIndex(tbl)
                 v == cells0[p]
             IN  IF v.tag = "null" THEN put(next, [cells0 EXCEPT ![p] = Int_(next)])
                 ELSE IF v.tag # "int" THEN Res(open, "IntegrityError", "datatype mismatch")
                 ELSE IF \E i \in 1..Len(tbl.rows) : tbl.rows[i].rowid = v.n
                      THEN Res(open, "IntegrityError", "UNIQUE constraint failed")
                 ELSE put(v.n, cells0)

\* cursor.execute('INSERT INTO "t" ("k1", ...) VALUES (?, ...)', values):
\* compile errors come before the implicit BEGIN
ExecInsertCols(c, name, keys, values) ==
    LET tbl == c.db[name]
    IN  IF keys = <<>> THEN Res(c, "OperationalError", "syntax error")
        ELSE IF ~tbl.exists THEN Res(c, "OperationalError", "no such table")
        ELSE IF \E i \in 1..Len(keys) : ~HasCol(tbl, keys[i])
             THEN Res(c, "OperationalError", "no such column")
        ELSE LET at(i) == CHOOSE k \in 1..Len(keys) : keys[k] = tbl.cols[i].name
                 listed == [i \in 1..Len(tbl.cols) |-> \E k \in 1..Len(keys) : keys[k] = tbl.cols[i].name]
                 given == [i \in 1..Len(tbl.cols) |-> IF listed[i] THEN values[at(i)] ELSE Null]
             IN  InsertRow(c, name, given)

\* cursor.execute('INSERT INTO "t" VALUES (?, ...)', row) with nparams
\* placeholders: the bind count is checked after the implicit BEGIN
ExecInsertAll(c, name, nparams, values) ==
    LET tbl == c.db[name]
    IN  IF nparams = 0 THEN Res(c, "OperationalError", "syntax error")
        ELSE IF ~tbl.exists THEN Res(c, "OperationalError", "no such table")
        ELSE IF nparams # Len(tbl.cols) THEN Res(c, "OperationalError", "wrong number of values")
        ELSE IF Len(values) # nparams
             THEN Res(Conn(c.db, c.durable, TRUE), "ProgrammingError", "incorrect number of bindings")
        ELSE InsertRow(c, name, values)

\* cursor.execute('DELETE FROM "t"')
ExecDelete(c, name) ==
    IF ~c.db[name].exists THEN Res(c, "OperationalError", "no such table")
    ELSE Res(Conn([c.db EXCEPT ![name].rows = <<>>], c.durable, TRUE), "ok", "ok")

(***************************************************************************)
(* Records: ordered mappings from column name to value, as the dicts the   *)
(* callers pass.  The set holds the record of the documented scenario     *)
(* {temp: 21.5, unit: "C"}, a record that carries only temp and carries it *)
(* as the text "12", and the empty record.                                 *)
(***************************************************************************)
KV(k, v) == [k |-> k, v |-> v]

Records == <<
    << KV("temp", Real_(215)), KV("unit", Text_(<<"C">>)) >>,
    << KV("temp", Text_(<<"1", "2">>)) >>,
    << >> >>

RecordIds == 1..Len(Records)

Keys(R) == [i \in 1..Len(R) |-> R[i].k]

Values(R) == [i \in 1..Len(R) |-> R[i].v]

HasKey(R, k) == \E i \in 1..Len(R) : R[i].k = k

Get(R, k) == R[CHOOSE i \in 1..Len(R) : R[i].k = k].v

\* the type test of create_table_from_dict on a value
InferType(v) ==
    IF v.tag = "int" THEN "INTEGER"
    ELSE IF v.tag = "real" THEN "REAL"
    ELSE "TEXT"

DictCols(R) ==
    <<Col("id", "INTEGER", TRUE)>> \o [i \in 1..Len(R) |-> Col(R[i].k, InferType(R[i].v), FALSE)]

(***************************************************************************)
(* The wrapper's methods as functions of the connection.  A call result is *)
(* the connection after the call and: err, the exception the caller sees   *)
(* ("ok" when the call returns); why, the engine's message for it; first,  *)
(* the message of the first INSERT of an append; cwhy, the message of the  *)
(* CREATE TABLE ("none" when no CREATE was executed); inserts and creates, *)
(* the number of INSERT and CREATE TABLE statements executed.              *)
(***************************************************************************)
Call(c, err, why, first, cwhy, inserts, creates) ==
    [db |-> c.db, durable |-> c.durable, inTxn |-> c.inTxn, err |-> err, why |-> why,
     first |-> first, cwhy |-> cwhy, inserts |-> inserts, creates |-> creates]

\* a variant of create_table_from_dict without the except clause: the failure
\* of the CREATE TABLE reaches the caller
create_table_from_dict_raising(c, name, R) ==
    LET r == ExecCreate(c, name, DictCols(R))
    IN  IF r.err = "ok" THEN Call(Commit(ConnOf(r)), "ok", "ok", "none", "ok", 0, 1)
        ELSE Call(ConnOf(r), r.err, r.why, "none", r.why, 0, 1)

create_table_from_dict(c, name, R) ==
    LET r == ExecCreate(c, name, DictCols(R))
    IN  IF r.err = "ok" THEN Call(Commit(ConnOf(r)), "ok", "ok", "none", "ok", 0, 1)
        ELSE IF r.err = "OperationalError" THEN Call(ConnOf(r), "ok", "ok", "none", r.why, 0, 1)
        ELSE Call(ConnOf(r), r.err, r.why, "none", r.why, 0, 1)

\* a variant of append_data_to_table that retries the INSERT without
\* creating the table
append_data_to_table_retry_only(c, name, R) ==
    LET r1 == ExecInsertCols(c, name, Keys(R), Values(R))
    IN  IF r1.err = "ok" THEN Call(Commit(ConnOf(r1)), "ok", "ok", "ok", "none", 1, 0)
        ELSE IF r1.err = "OperationalError" THEN
            LET r2 == ExecInsertCols(ConnOf(r1), name, Keys(R), Values(R))
            IN  IF r2.err = "ok"
                THEN Call(Commit(ConnOf(r2)), "ok", "ok", r1.why, "none", 2, 0)
                ELSE Call(ConnOf(r2), r2.err, r2.why, r1.why, "none", 2, 0)
        ELSE Call(ConnOf(r1), r1.err, r1.why, r1.why, "none", 1, 0)

append_data_to_table(c, name, R) ==
    LET r1 == ExecInsertCols(c, name, Keys(R), Values(R))
    IN  IF r1.err = "ok" THEN Call(Commit(ConnOf(r1)), "ok", "ok", "ok", "none", 1, 0)
        ELSE IF r1.err = "OperationalError" THEN
            LET cr == create_table_from_dict(ConnOf(r1), name, R)
            IN  IF cr.err # "ok" THEN Call(ConnOf(cr), cr.err, cr.why, r1.why, cr.cwhy, 1, 1)
                ELSE LET r2 == ExecInsertCols(ConnOf(cr), name, Keys(R), Values(R))
                     IN  IF r2.err = "ok"
                         THEN Call(Commit(ConnOf(r2)), "ok", "ok", r1.why, cr.cwhy, 2, 1)
                         ELSE Call(ConnOf(r2), r2.err, r2.why, r1.why, cr.cwhy, 2, 1)
        ELSE Call(ConnOf(r1), r1.err, r1.why, r1.why, "none", 1, 0)

reset_table_data(c, name) ==
    LET r == ExecDelete(c, name)
    IN  IF r.err = "ok" THEN Call(Commit(ConnOf(r)), "ok", "ok", "none", "none", 0, 0)
        ELSE Call(ConnOf(r), r.err, r.why, "none", "none", 0, 0)

(***************************************************************************)
(* SELECT.  ORDER BY id DESC compares the stored values of the column      *)
(* named id: NULL sorts below numbers, numbers below text, text by bytes;  *)
(* rows with equal keys stay in rowid order.                               *)
(***************************************************************************)
Alphabet == <<".", "0", "1", "2", "3", "4", "5", "6", "7", "8", "9", "C">>

CharCode(ch) == CHOOSE i \in 1..Len(Alphabet) : Alphabet[i] = ch

RECURSIVE TextLess(_, _)
TextLess(a, b) ==
    IF b = <<>> THEN FALSE
    ELSE IF a = <<>> THEN TRUE
    ELSE IF Head(a) # Head(b) THEN CharCode(Head(a)) < CharCode(Head(b))
    ELSE TextLess(Tail(a), Tail(b))

ValueLess(a, b) ==
    LET rank(v) == IF v.tag = "null" THEN 0 ELSE IF v.tag = "text" THEN 2 ELSE 1
        tenths(v) == IF v.tag = "int" THEN 10 * v.n ELSE v.n
    IN  IF rank(a) # rank(b) THEN rank(a) < rank(b)
        ELSE IF rank(a) = 0 THEN FALSE
        ELSE IF rank(a) = 1 THEN tenths(a) < tenths(b)
        ELSE TextLess(a.s, b.s)

\* rows (given in rowid order) sorted by descending value of cell k
RECURSIVE SortDesc(_, _)
SortDesc(rows, k) ==
    IF rows = <<>> THEN <<>>
    ELSE LET n == Len(rows)
             done == SortDesc(SubSeq(rows, 1, n - 1), k)
             r == rows[n]
             ahead == Cardinality({i \in 1..Len(done) : ~ValueLess(done[i].cells[k], r.cells[k])})
         IN  SubSeq(done, 1, ahead) \o <<r>> \o SubSeq(done, ahead + 1, Len(done))

\* the name cursor.description gives a double-quoted identifier that is no
\* column and that the engine reads as a string literal
QuotedName(name) ==
    CASE name = "id" -> "\"id\""
      [] name = "temp" -> "\"temp\""
      [] name = "unit" -> "\"unit\""
      [] name = "a" -> "\"a\""
      [] name = "b" -> "\"b\""

NameChars(name) ==
    CASE name = "id" -> <<"i", "d">>
      [] name = "temp" -> <<"t", "e", "m", "p">>
      [] name = "unit" -> <<"u", "n", "i", "t">>
      [] name = "a" -> <<"a">>
      [] name = "b" -> <<"b">>

Limit(given, n) == [given |-> given, n |-> n]

NoLimit == Limit(FALSE, 0)

Sel(err, why, names, rows) == [err |-> err, why |-> why, names |-> names, rows |-> rows]

\* cursor.execute('SELECT <cols> FROM "t" [ORDER BY id DESC LIMIT n]') then
\* fetchall() and description.  star: SELECT *; lim.given: ordered and
\* limited; dqs: whether the engine build reads an unknown double-quoted
\* identifier as a string literal (the default) or rejects it.
Select(d, name, star, cols, lim, dqs) ==
    LET tbl == d[name]
        unknown == {i \in 1..Len(cols) : ~HasCol(tbl, cols[i])}
    IN  IF ~star /\ cols = <<>> THEN Sel("OperationalError", "syntax error", <<>>, <<>>)
        ELSE IF ~tbl.exists THEN Sel("OperationalError", "no such table", <<>>, <<>>)
        ELSE IF ~star /\ unknown # {} /\ ~dqs THEN Sel("OperationalError", "no such column", <<>>, <<>>)
        ELSE IF lim.given /\ ~HasCol(tbl, "id") THEN Sel("OperationalError", "no such column", <<>>, <<>>)
        ELSE LET ordered == IF lim.given THEN Take(SortDesc(tbl.rows, ColIndex(tbl, "id")), lim.n)
                            ELSE tbl.rows
                 names == IF star THEN ColNames(tbl)
                          ELSE [i \in 1..Len(cols) |->
                                  IF i \in unknown THEN QuotedName(cols[i]) ELSE cols[i]]
                 cell(row, i) == IF star THEN row.cells[i]
                                 ELSE IF i \in unknown THEN Text_(NameChars(cols[i]))
                                 ELSE row.cells[ColIndex(tbl, cols[i])]
             IN  Sel("ok", "ok", names,
                     [j \in 1..Len(ordered) |-> [i \in 1..Len(names) |-> cell(ordered[j], i)]])

(***************************************************************************)
(* Reads.  A result is err and data, the returned dict as a function from  *)
(* column name to the list of its values.                                  *)
(***************************************************************************)
Read(err, data) == [err |-> err, data |-> data]

\* column i of the fetched rows, in fetch order
Column(sel, i) == [j \in 1..Len(sel.rows) |-> sel.rows[j][i]]

\* the dict built by assigning data[name] for each name in turn
DictOf(names, lists) ==
    [k \in Range(names) |-> lists[CHOOSE i \in 1..Len(names) : names[i] = k /\ \A j \in i + 1..Len(names) : names[j] # k]]

\* a variant of get_last_n_rows whose query orders by ascending id
get_last_n_rows_ascending(d, name, n, dqs) ==
    LET all == Select(d, name, TRUE, <<>>, Limit(TRUE, Len(d[name].rows)), dqs)
        sel == [all EXCEPT !.rows = Take(Reverse(all.rows), n)]
    IN  IF sel.err # "ok" THEN Read(sel.err, <<>>)
        ELSE Read("ok", DictOf(sel.names, [i \in 1..Len(sel.names) |-> Column(sel, i)]))

get_last_n_rows(d, name, n, dqs) ==
    LET sel == Select(d, name, TRUE, <<>>, Limit(TRUE, n), dqs)
    IN  IF sel.err # "ok" THEN Read(sel.err, <<>>)
        ELSE Read("ok", DictOf(sel.names, [i \in 1..Len(sel.names) |-> Column(sel, i)]))

get_n_rows_from_column(d, name, column, n, dqs) ==
    LET sel == Select(d, name, FALSE, <<column>>, Limit(TRUE, n), dqs)
    IN  IF sel.err # "ok" THEN Read(sel.err, <<>>)
        ELSE Read("ok", DictOf(sel.names, [i \in 1..Len(sel.names) |-> Column(sel, 1)]))

\* a variant of get_n_rows_from_columns without seq.reverse()
get_n_rows_from_columns_unreversed(d, name, cols, n, dqs) ==
    LET sel == Select(d, name, FALSE, cols, Limit(TRUE, n), dqs)
    IN  IF sel.err # "ok" THEN Read(sel.err, <<>>)
        ELSE Read("ok", DictOf(sel.names, [i \in 1..Len(sel.names) |-> Column(sel, i)]))

get_n_rows_from_columns(d, name, cols, n, dqs) ==
    LET sel == Select(d, name, FALSE, cols, Limit(TRUE, n), dqs)
    IN  IF sel.err # "ok" THEN Read(sel.err, <<>>)
        ELSE Read("ok", DictOf(sel.names, [i \in 1..Len(sel.names) |-> Reverse(Column(sel, i))]))

\* a variant of get_all_rows_from_columns that zips the column names with
\* zip(*rows) even when there are no rows
get_all_rows_from_columns_zip_only(d, name, cols, dqs) ==
    LET sel == Select(d, name, FALSE, cols, NoLimit, dqs)
    IN  IF sel.err # "ok" THEN Read(sel.err, <<>>)
        ELSE IF sel.rows = <<>> THEN Read("ok", <<>>)
        ELSE Read("ok", DictOf(sel.names, [i \in 1..Len(sel.names) |-> Column(sel, i)]))

get_all_rows_from_columns(d, name, cols, dqs) ==
    LET sel == Select(d, name, FALSE, cols, NoLimit, dqs)
    IN  IF sel.err # "ok" THEN Read(sel.err, <<>>)
        ELSE Read("ok", DictOf(sel.names, [i \in 1..Len(sel.names) |-> Column(sel, i)]))

(***************************************************************************)
(* CSV files.  A file is its header line (column names) and its data       *)
(* lines, each a list of text fields: csv.writer turns every value into    *)
(* text and csv.reader gives back the fields of each line.                 *)
(***************************************************************************)
Paths == {"out", "bad"}

NoFile == [exists |-> FALSE, header |-> <<>>, rows |-> <<>>]

File(header, rows) == [exists |-> TRUE, header |-> header, rows |-> rows]

\* a file whose second data line has fewer fields than its header
BadFile == File(<<"a", "b">>, << <<<<"1">>, <<"2">>>>, <<<<"3">>>> >>)

\* what csv.writer writes for a value: None as the empty field, numbers by str()
CsvField(v) ==
    IF v.tag = "null" THEN <<>>
    ELSE IF v.tag = "int" THEN IntToText(v.n)
    ELSE IF v.tag = "real" THEN RealToText(v.n)
    ELSE v.s

CsvLine(cells) == [i \in 1..Len(cells) |-> CsvField(cells[i])]

\* a variant of sqlite_to_csv that reverses the fetched rows whether or not n
\* was given
sqlite_to_csv_always_reversed(c, fs, name, path, lim) ==
    LET sel == Select(c.db, name, TRUE, <<>>, lim, TRUE)
        rows == Reverse(sel.rows)
    IN  IF sel.err # "ok"
        THEN [call |-> Call(c, sel.err, sel.why, "none", "none", 0, 0), files |-> fs]
        ELSE [call |-> Call(c, "ok", "ok", "none", "none", 0, 0),
              files |-> [fs EXCEPT ![path] = File(sel.names, [j \in 1..Len(rows) |-> CsvLine(rows[j])])]]

\* the result of sqlite_to_csv: the call result and the files after it
sqlite_to_csv(c, fs, name, path, lim) ==
    LET sel == Select(c.db, name, TRUE, <<>>, lim, TRUE)
        rows == IF lim.given THEN Reverse(sel.rows) ELSE sel.rows
    IN  IF sel.err # "ok"
        THEN [call |-> Call(c, sel.err, sel.why, "none", "none", 0, 0), files |-> fs]
        ELSE [call |-> Call(c, "ok", "ok", "none", "none", 0, 0),
              files |-> [fs EXCEPT ![path] = File(sel.names, [j \in 1..Len(rows) |-> CsvLine(rows[j])])]]

\* the insert loop of create_table_from_csv over the remaining lines
RECURSIVE ImportRows(_, _, _, _, _)
ImportRows(c, name, nparams, lines, inserts) ==
    IF lines = <<>> THEN Call(Commit(c), "ok", "ok", "none", "ok", inserts, 1)
    ELSE LET r == ExecInsertAll(c, name, nparams, [i \in 1..Len(Head(lines)) |-> Text_(Head(lines)[i])])
         IN  IF r.err # "ok" THEN Call(ConnOf(r), r.err, r.why, "none", "ok", inserts + 1, 1)
             ELSE ImportRows(ConnOf(r), name, nparams, Tail(lines), inserts + 1)

create_table_from_csv(c, fs, name, path) ==
    LET f == fs[path]
        cols == [i \in 1..Len(f.header) |-> Col(f.header[i], "TEXT", FALSE)]
        r == ExecCreate(c, name, cols)
    IN  IF ~f.exists THEN Call(c, "FileNotFoundError", "no such file", "none", "none", 0, 0)
        ELSE IF r.err # "ok" THEN Call(ConnOf(r), r.err, r.why, "none", r.why, 0, 1)
        ELSE ImportRows(ConnOf(r), name, Len(f.header), f.rows, 0)

(***************************************************************************)
(* The store as a state machine: one action per method that writes to the  *)
(* database or to a file.  Each action is the whole call, run by one       *)
(* thread.  The reads are the operators above, applied to db.              *)
(***************************************************************************)
Threads == {1, 2}

Init ==
    /\ db = [t \in Names |-> NoTable]
    /\ durable = [t \in Names |-> NoTable]
    /\ inTxn = FALSE
    /\ files = [p \in Paths |-> IF p = "bad" THEN BadFile ELSE NoFile]
    /\ pc = [t \in Threads |-> "idle"]
    /\ lock = 0
    /\ op = [t \in Threads |-> "none"]
    /\ left = [t \in Threads |-> 0]
    /\ held = [t \in Threads |-> FALSE]

Cur == Conn(db, durable, inTxn)

Apply(call) ==
    /\ db' = call.db
    /\ durable' = call.durable
    /\ inTxn' = call.inTxn

CreateTable(name, r) ==
    /\ Apply(create_table_from_dict(Cur, name, Records[r]))
    /\ UNCHANGED <<files, lockvars>>

AppendRow(name, r) ==
    /\ Len(db[name].rows) < MaxRows
    /\ Apply(append_data_to_table(Cur, name, Records[r]))
    /\ UNCHANGED <<files, lockvars>>

ResetTable(name) ==
    /\ Apply(reset_table_data(Cur, name))
    /\ UNCHANGED <<files, lockvars>>

ExportCsv(name, lim) ==
    LET out == sqlite_to_csv(Cur, files, name, "out", lim)
    IN  /\ Apply(out.call)
        /\ files' = out.files
        /\ UNCHANGED lockvars

ImportCsv(name, path) ==
    /\ Len(files[path].rows) <= MaxRows
    /\ Apply(create_table_from_csv(Cur, files, name, path))
    /\ UNCHANGED <<files, lockvars>>

\* sqlite_to_csv is called with n omitted or with an n that covers the table
ExportLimits == {NoLimit, Limit(TRUE, MaxN)}

Next ==
    \/ \E name \in Names, r \in RecordIds : CreateTable(name, r)
    \/ \E name \in Names, r \in RecordIds : AppendRow(name, r)
    \/ \E name \in Names : ResetTable(name)
    \/ \E name \in Names, lim \in ExportLimits : ExportCsv(name, lim)
    \/ \E name \in Names, path \in Paths : ImportCsv(name, path)

Spec == Init /\ [][Next]_vars

(***************************************************************************)
(* The lock discipline: the threads of one process share one wrapper, so    *)
(* one connection and one threading.Lock, and each runs the wrapper's       *)
(* methods step by step.  pc is a thread's position (idle, waiting for the  *)
(* lock at a `with self.lock`, about to execute the statement, about to     *)
(* call conn.commit(), about to leave the with block), op the statement     *)
(* sequence it is in, left the number of CSV lines its import has still to  *)
(* insert.  held is a history variable: the thread has held the lock ever   *)
(* since it executed its last statement.  What the statements do to the    *)
(* database is the subject of Spec; here a statement only succeeds or       *)
(* raises.                                                                  *)
(***************************************************************************)
\* lines of an imported CSV file after the header
MaxLines == 2

Reads == {"get_last_n_rows", "get_n_rows_from_column", "get_n_rows_from_columns",
          "get_all_rows_from_columns"}

Methods == {"create_table_from_dict", "append_data_to_table", "sqlite_to_csv",
            "create_table_from_csv", "reset_table_data"} \cup Reads

\* a statement returns, raises sqlite3.OperationalError or raises another
\* exception (sqlite3.ProgrammingError, sqlite3.IntegrityError, ...)
Outcomes == {"ok", "OperationalError", "Error"}

\* the with blocks that call conn.commit() after the statement
Committing == {"create_table_from_dict", "append_data_to_table", "append.create",
               "append.retry", "reset_table_data"}

Goto(t, label, o, n) ==
    /\ pc' = [pc EXCEPT ![t] = label]
    /\ op' = [op EXCEPT ![t] = o]
    /\ left' = [left EXCEPT ![t] = n]

Return(t) == Goto(t, "idle", "none", 0)

\* a thread calls a method; an import reads a file of n lines
Enter(t, m, n) ==
    /\ pc[t] = "idle"
    /\ Goto(t, "acquire", m, IF m = "create_table_from_csv" THEN n ELSE 0)
    /\ UNCHANGED <<lock, held, dbvars>>

\* `with self.lock:` blocks until the lock is free
Acquire(t) ==
    /\ pc[t] = "acquire"
    /\ lock = 0
    /\ lock' = t
    /\ Goto(t, "execute", op[t], left[t])
    /\ UNCHANGED <<held, dbvars>>

\* cursor.execute: on success the thread goes on inside the with block; an
\* exception leaves the with block, which releases the lock, and reaches the
\* nearest handler
Execute(t, outcome) ==
    /\ pc[t] = "execute"
    /\ IF outcome = "ok"
       THEN /\ held' = [held EXCEPT ![t] = (lock = t)]
            /\ lock' = lock
            /\ IF op[t] \in Committing THEN Goto(t, "commit", op[t], left[t])
               ELSE IF op[t] = "import.insert" THEN Goto(t, "release", op[t], left[t] - 1)
               ELSE Goto(t, "release", op[t], left[t])
       ELSE /\ held' = [held EXCEPT ![t] = FALSE]
            /\ lock' = IF lock = t THEN 0 ELSE lock
            /\ IF outcome = "OperationalError" /\ op[t] = "append_data_to_table"
               THEN Goto(t, "acquire", "append.create", 0)
               ELSE IF outcome = "OperationalError" /\ op[t] = "append.create"
               THEN Goto(t, "acquire", "append.retry", 0)
               ELSE Return(t)
    /\ UNCHANGED dbvars

\* conn.commit(): inside the with block, except at the end of
\* create_table_from_csv
CommitConn(t) ==
    /\ pc[t] = "commit"
    /\ IF op[t] = "import.commit" THEN Return(t) ELSE Goto(t, "release", op[t], left[t])
    /\ UNCHANGED <<lock, held, dbvars>>

\* the end of a with block releases the lock; the method goes on to its next
\* with block, to the commit of the import, or returns
Release(t) ==
    /\ pc[t] = "release"
    /\ lock' = IF lock = t THEN 0 ELSE lock
    /\ held' = [held EXCEPT ![t] = FALSE]
    /\ IF op[t] = "append.create" THEN Goto(t, "acquire", "append.retry", 0)
       ELSE IF op[t] \in {"create_table_from_csv", "import.insert"}
       THEN IF left[t] > 0 THEN Goto(t, "acquire", "import.insert", left[t])
            ELSE Goto(t, "commit", "import.commit", 0)
       ELSE Return(t)
    /\ UNCHANGED dbvars

NextLock ==
    \/ \E t \in Threads, m \in Methods, n \in 0..MaxLines : Enter(t, m, n)
    \/ \E t \in Threads : Acquire(t)
    \/ \E t \in Threads, outcome \in Outcomes : Execute(t, outcome)
    \/ \E t \in Threads : CommitConn(t)
    \/ \E t \in Threads : Release(t)

SpecLock == Init /\ [][NextLock]_vars

(***************************************************************************)
(* Properties.  A property of a call is stated for every call that can be  *)
(* made in a reachable state: the call's result is the method applied to   *)
(* the current connection, which is what the call's action installs.       *)
(***************************************************************************)
\* a table with the "id" INTEGER PRIMARY KEY column: one made by
\* create_table_from_dict, called directly or by append_data_to_table
FromDict(tbl) == tbl.exists /\ HasPk(tbl)

\* a table without it: one made by create_table_from_csv
FromCsv(tbl) == tbl.exists /\ ~HasPk(tbl)

\* the record has a key and all its keys are columns of the table
Fits(R, tbl) == R # <<>> /\ \A i \in 1..Len(R) : HasCol(tbl, R[i].k)

TypeOf(tbl, k) == tbl.cols[ColIndex(tbl, k)].type

\* the calls appendRow(name, Records[r]) the row bound admits
Appends == {a \in Names \X RecordIds : Len(db[a[1]].rows) < MaxRows}

(***************************************************************************)
(* C1 as stated: for every table T and every record R, after any sequence  *)
(* of operations, an appendRow(T, R) that returns, followed by             *)
(* lastNRows(T, 1), gives a mapping that holds for every key k of R a      *)
(* one-element list whose element equals R[k], and an id entry with an id  *)
(* no earlier row of T had.                                                *)
(***************************************************************************)
C1_AppendThenLastEqualsRecord ==
    \A a \in Appends :
        LET name == a[1]
            R == Records[a[2]]
            old == db[name]
            call == append_data_to_table(Cur, name, R)
            rd == get_last_n_rows(call.db, name, 1, TRUE)
        IN  call.err = "ok" =>
               /\ rd.err = "ok"
               /\ "id" \in DOMAIN rd.data
               /\ Len(rd.data["id"]) = 1
               /\ \A i \in 1..Len(old.rows) :
                      old.rows[i].cells[ColIndex(old, "id")] # rd.data["id"][1]
               /\ \A i \in 1..Len(R) :
                      /\ R[i].k \in DOMAIN rd.data
                      /\ Len(rd.data[R[i].k]) = 1
                      /\ PyEq(rd.data[R[i].k][1], R[i].v)

(***************************************************************************)
(* C1 amended: for a table T that does not exist or was made by            *)
(* createTable/appendRow, and a non-empty record R whose keys are columns  *)
(* of T (any non-empty R when T does not exist), appendRow(T, R) returns   *)
(* and lastNRows(T, 1) then gives one-element lists: under id the newly    *)
(* assigned id, larger than every id of T; under every key k of R the      *)
(* value R[k] as converted by the type affinity of column k, which equals  *)
(* R[k] when R[k] has the type the column was declared with (always when   *)
(* the append created T); under every other column None.                   *)
(***************************************************************************)
C1_AppendThenLastStoredRecord ==
    \A a \in Appends :
        LET name == a[1]
            R == Records[a[2]]
            old == db[name]
            call == append_data_to_table(Cur, name, R)
            rd == get_last_n_rows(call.db, name, 1, TRUE)
            tbl == call.db[name]
        IN  (\/ ~old.exists /\ R # <<>>
             \/ FromDict(old) /\ Fits(R, old)) =>
               /\ call.err = "ok"
               /\ rd.err = "ok"
               /\ DOMAIN rd.data = Range(ColNames(tbl))
               /\ rd.data["id"] = <<Int_(MaxRowid(old.rows) + 1)>>
               /\ \A i \in 1..Len(old.rows) : old.rows[i].rowid < rd.data["id"][1].n
               /\ \A k \in DOMAIN rd.data \ {"id"} :
                      IF HasKey(R, k)
                      THEN /\ rd.data[k] = <<ApplyAffinity(TypeOf(tbl, k), Get(R, k))>>
                           /\ (InferType(Get(R, k)) = TypeOf(tbl, k) \/ ~old.exists)
                                  => PyEq(rd.data[k][1], Get(R, k))
                      ELSE rd.data[k] = <<Null>>

\* a table made from the scenario record holds a second row whose temp was
\* appended as the text "12" and is stored as the real 12.0
C1_Witness ==
    \E name \in Names :
        /\ FromDict(db[name])
        /\ Len(db[name].rows) = 2
        /\ TypeOf(db[name], "temp") = "REAL"
        /\ get_last_n_rows(db, name, 1, TRUE).data["temp"] = <<Real_(120)>>

(***************************************************************************)
(* Helpers of the window properties.                                       *)
(***************************************************************************)
\* the m most recently inserted rows of a table, most recent first
Recent(tbl, m) ==
    [j \in 1..m |-> tbl.rows[CHOOSE i \in 1..Len(tbl.rows) : tbl.rows[i].seq = Len(tbl.rows) + 1 - j]]

\* column lists a caller selects: the first column alone, and all columns in
\* the reverse of the table's order
ColLists(tbl) == {<<tbl.cols[1].name>>, Reverse(ColNames(tbl))}

\* the values of column k in a list of rows
CellsOf(tbl, rows, k) == [j \in 1..Len(rows) |-> rows[j].cells[ColIndex(tbl, k)]]

StrictlyDescending(vals) == \A j \in 1..Len(vals) - 1 : ValueLess(vals[j + 1], vals[j])

StrictlyAscending(vals) == \A j \in 1..Len(vals) - 1 : ValueLess(vals[j], vals[j + 1])

\* lastNRows(name, n) and lastNColumns(name, cols, n) return the min(n, c)
\* most recently inserted rows, the first in descending and the second in
\* ascending id order
WindowsOf(name) ==
    LET tbl == db[name]
    IN  \A n \in 0..MaxN :
            LET recent == Recent(tbl, Min(n, Len(tbl.rows)))
                rd == get_last_n_rows(db, name, n, TRUE)
            IN  /\ rd.err = "ok"
                /\ DOMAIN rd.data = Range(ColNames(tbl))
                /\ \A k \in DOMAIN rd.data : rd.data[k] = CellsOf(tbl, recent, k)
                /\ StrictlyDescending(rd.data["id"])
                /\ \A cols \in ColLists(tbl) :
                       LET rc == get_n_rows_from_columns(db, name, cols, n, TRUE)
                       IN  /\ rc.err = "ok"
                           /\ DOMAIN rc.data = Range(cols)
                           /\ \A k \in DOMAIN rc.data : rc.data[k] = Reverse(rd.data[k])
                           /\ "id" \in DOMAIN rc.data => StrictlyAscending(rc.data["id"])

(***************************************************************************)
(* C2 as stated: for every existing table, however it was created          *)
(* (createTable, appendRow or importCsv), and every n >= 0, lastNRows      *)
(* returns without error the min(n, c) most recently inserted rows in      *)
(* strictly descending id order and lastNColumns the selected columns of   *)
(* the same rows in strictly ascending id order.                           *)
(***************************************************************************)
C2_WindowsOfEveryTable == \A name \in Names : db[name].exists => WindowsOf(name)

(***************************************************************************)
(* C2 amended: the same for every table created by createTable or          *)
(* implicitly by appendRow and filled by appendRow with records that carry *)
(* no id of their own; not for a table created by importCsv, whose id      *)
(* column is ordinary text or missing.                                     *)
(***************************************************************************)
C2_WindowsOfDictTables == \A name \in Names : FromDict(db[name]) => WindowsOf(name)

\* a table made by createTable/appendRow is full, so that n = 1 cuts the
\* window, n = MaxRows is exact and n = MaxN exceeds the row count
C2_Witness ==
    \E name \in Names :
        /\ FromDict(db[name])
        /\ Len(db[name].rows) = MaxRows
        /\ get_last_n_rows(db, name, MaxN, TRUE).data["id"] = [j \in 1..MaxRows |-> Int_(MaxRows + 1 - j)]
        /\ get_n_rows_from_columns(db, name, <<"id">>, 1, TRUE).data["id"] = <<Int_(MaxRows)>>

(***************************************************************************)
(* C3: createTable(T, sample) on a table T that exists, with any sample,   *)
(* returns without raising and leaves the database (the columns and rows   *)
(* of every table, committed or not) as it was; and after any createTable  *)
(* call a second call with the same arguments returns and changes nothing. *)
(***************************************************************************)
C3_CreateExistingChangesNothing ==
    \A name \in Names, r \in RecordIds :
        LET call == create_table_from_dict(Cur, name, Records[r])
            again == create_table_from_dict(ConnOf(call), name, Records[r])
        IN  /\ db[name].exists => call.err = "ok" /\ ConnOf(call) = Cur
            /\ call.err = "ok"
            /\ again.err = "ok"
            /\ ConnOf(again) = ConnOf(call)

\* a table made by createTable/appendRow is full while rows of a failed
\* import are pending on the connection: a createTable on it is a call on an
\* existing table with data, inside an open transaction
C3_Witness ==
    \E name \in Names :
        /\ FromDict(db[name])
        /\ Len(db[name].rows) = MaxRows
        /\ inTxn
        /\ db # durable

(***************************************************************************)
(* C4: one appendRow(T, R) call executes one or two INSERTs and at most    *)
(* one CREATE TABLE.  When the first INSERT succeeds there is no CREATE    *)
(* and no second INSERT.  When the first INSERT fails because T does not   *)
(* exist, T is created with the columns of R's shape and the INSERT is     *)
(* executed exactly once more.  A second INSERT is never executed without  *)
(* the CREATE.  The call returns exactly when an INSERT succeeded, with    *)
(* one row added; otherwise the failure of the last INSERT reaches the     *)
(* caller and no row is added.                                             *)
(***************************************************************************)
C4_AppendAttempts ==
    \A a \in Appends :
        LET name == a[1]
            R == Records[a[2]]
            call == append_data_to_table(Cur, name, R)
            grew == Len(call.db[name].rows) = Len(db[name].rows) + 1
        IN  /\ call.inserts \in {1, 2}
            /\ call.creates \in {0, 1}
            /\ call.first = "ok" => call.inserts = 1 /\ call.creates = 0 /\ call.err = "ok"
            /\ call.first = "no such table" =>
                  /\ call.creates = 1
                  /\ call.inserts = 2
                  /\ call.db[name].exists
                  /\ call.db[name].cols = DictCols(R)
            /\ call.inserts = 2 => call.creates = 1 /\ call.first # "ok"
            /\ call.err = "ok" <=> grew
            /\ call.err # "ok" => call.why # "ok" /\ call.db[name].rows = db[name].rows

\* a table with the columns of the record {temp: "12"} holds that one record
\* (an append to a missing table creates exactly this), and the other table
\* has the lone id column that the append of the empty record leaves behind
C4_Witness ==
    \E name, other \in Names :
        /\ db[name].exists
        /\ db[name].cols = DictCols(Records[2])
        /\ Len(db[name].rows) = 1
        /\ db[other].exists
        /\ db[other].cols = DictCols(<<>>)

(***************************************************************************)
(* Helpers of the round trip.                                              *)
(***************************************************************************)
\* the table dst after exportCsv(src, "out") with no n followed by
\* importCsv(dst, "out"), and the exception of the import
RoundTrip(src, dst) ==
    LET exported == sqlite_to_csv(Cur, files, src, "out", NoLimit)
        imported == create_table_from_csv(ConnOf(exported.call), exported.files, dst, "out")
    IN  [err |-> imported.err, table |-> imported.db[dst]]

\* D has the rows of S in the same order, each cell converted by text(_)
SameAsText(S, D, text(_)) ==
    /\ ColNames(D) = ColNames(S)
    /\ Len(D.rows) = Len(S.rows)
    /\ \A j \in 1..Len(S.rows) :
           D.rows[j].cells = [i \in 1..Len(S.cols) |-> text(S.rows[j].cells[i])]

\* the pairs of a table made by createTable/appendRow and a name not in use
RoundTrips == {p \in Names \X Names : FromDict(db[p[1]]) /\ ~db[p[2]].exists}

(***************************************************************************)
(* C5 as stated: exportCsv(T, path) with no n followed by                  *)
(* importCsv(T2, path) yields a table T2 with the columns of T including   *)
(* id, as many rows, and row by row the values of T coerced to text (the   *)
(* engine's conversion of a value to TEXT, under which NULL stays NULL).   *)
(***************************************************************************)
C5_RoundTripCoercedToText ==
    \A p \in RoundTrips :
        LET rt == RoundTrip(p[1], p[2])
        IN  /\ rt.err = "ok"
            /\ SameAsText(db[p[1]], rt.table, LAMBDA v : ApplyAffinity("TEXT", v))

(***************************************************************************)
(* C5 amended: the same, except that a cell of T that is NULL (a column    *)
(* the appended record did not carry) comes back in T2 as the empty text.  *)
(***************************************************************************)
C5_RoundTripNullAsEmptyText ==
    \A p \in RoundTrips :
        LET rt == RoundTrip(p[1], p[2])
        IN  /\ rt.err = "ok"
            /\ SameAsText(db[p[1]], rt.table,
                          LAMBDA v : IF v.tag = "null" THEN Text_(<<>>) ELSE ApplyAffinity("TEXT", v))

\* a full table made by createTable/appendRow, with a NULL cell, its export
\* in the file and the table imported from that file
C5_Witness ==
    \E src, dst \in Names :
        /\ FromDict(db[src])
        /\ Len(db[src].rows) = MaxRows
        /\ \E j \in 1..MaxRows : \E i \in 1..Len(db[src].cols) : db[src].rows[j].cells[i] = Null
        /\ files["out"] = sqlite_to_csv(Cur, files, src, "out", NoLimit).files["out"]
        /\ FromCsv(db[dst])
        /\ ColNames(db[dst]) = files["out"].header
        /\ Len(db[dst].rows) = MaxRows
        /\ db = durable

(***************************************************************************)
(* C7: between calls the connection holds no uncommitted changes: what the *)
(* connection sees is what has been committed, whether the last call       *)
(* returned or raised.                                                     *)
(***************************************************************************)
C7_NoUncommittedChanges == db = durable

(***************************************************************************)
(* C8: only a table-already-exists failure of the CREATE TABLE in          *)
(* createTable and a missing-table failure of the first INSERT in          *)
(* appendRow are handled.  Any other failure of the CREATE TABLE reaches   *)
(* the caller of createTable; any other failure of the first INSERT        *)
(* reaches the caller of appendRow unchanged, with no CREATE TABLE and no  *)
(* second INSERT.                                                          *)
(***************************************************************************)
C8_OnlyTwoFailuresHandled ==
    /\ \A name \in Names, r \in RecordIds :
           LET call == create_table_from_dict(Cur, name, Records[r])
           IN  call.cwhy \notin {"ok", "table already exists"} =>
                   call.err # "ok" /\ call.why = call.cwhy
    /\ \A a \in Appends :
           LET call == append_data_to_table(Cur, a[1], Records[a[2]])
           IN  call.first \notin {"ok", "no such table"} =>
                   /\ call.err # "ok"
                   /\ call.why = call.first
                   /\ call.creates = 0
                   /\ call.inserts = 1

(***************************************************************************)
(* C9: resetTable(T) on an existing table T returns and leaves T with its  *)
(* columns and no rows, committed; allColumns(T, cols) for columns of T    *)
(* then returns a mapping with exactly the requested columns as keys, each *)
(* with the empty list; and appendRow(T, R), for a record R whose keys are *)
(* columns of T, then returns and makes the row of R (its values as stored *)
(* under the columns' affinity, id 1 when T has the id key) the only row   *)
(* of T.                                                                   *)
(***************************************************************************)
C9_ResetEmptiesAndKeepsTable ==
    \A name \in Names :
        db[name].exists =>
            LET reset == reset_table_data(Cur, name)
                tbl == reset.db[name]
            IN  /\ reset.err = "ok"
                /\ tbl.exists
                /\ tbl.cols = db[name].cols
                /\ tbl.rows = <<>>
                /\ reset.durable = reset.db
                /\ \A cols \in ColLists(tbl) :
                       LET rd == get_all_rows_from_columns(reset.db, name, cols, FALSE)
                       IN  /\ rd.err = "ok"
                           /\ DOMAIN rd.data = Range(cols)
                           /\ \A k \in DOMAIN rd.data : rd.data[k] = <<>>
                /\ \A r \in RecordIds :
                       Fits(Records[r], tbl) =>
                          LET R == Records[r]
                              call == append_data_to_table(ConnOf(reset), name, R)
                              rows == call.db[name].rows
                          IN  /\ call.err = "ok"
                              /\ Len(rows) = 1
                              /\ rows[1].cells =
                                    [i \in 1..Len(tbl.cols) |->
                                        IF HasKey(R, tbl.cols[i].name)
                                        THEN ApplyAffinity(tbl.cols[i].type, Get(R, tbl.cols[i].name))
                                        ELSE IF tbl.cols[i].pk THEN Int_(1) ELSE Null]

\* the only table is empty and the exported file holds rows under its
\* columns: the table had rows and was reset
C9_Witness ==
    \E name, other \in Names :
        /\ db[name].exists
        /\ db[name].rows = <<>>
        /\ ~db[other].exists
        /\ files["out"].exists
        /\ files["out"].header = ColNames(db[name])
        /\ Len(files["out"].rows) = MaxRows

(***************************************************************************)
(* C10: an appendRow(T, R) call that raises leaves the database as it was: *)
(* the same tables with the same columns and rows.                         *)
(***************************************************************************)
C10_FailedAppendChangesNothing ==
    \A a \in Appends :
        LET call == append_data_to_table(Cur, a[1], Records[a[2]])
        IN  call.err # "ok" => call.db = db

(***************************************************************************)
(* C6: within one store instance used by several threads, a thread that is *)
(* about to execute a statement or to commit on the shared connection      *)
(* holds the lock, and at a commit it has held the lock without a release  *)
(* since the statement the commit follows.                                 *)
(***************************************************************************)
C6_StatementAndCommitInOneHold ==
    \A t \in Threads :
        /\ pc[t] \in {"execute", "commit"} => lock = t
        /\ pc[t] = "commit" => held[t]

====
